---- MODULE Spec2Model ----
(***************************************************************************)
(* sfmanager: a dual-pane terminal file manager.                           *)
(*                                                                         *)
(* The model covers Panel (src/src/panel.rs), App and the copy/move/delete *)
(* operations (src/src/app.rs) over an explicit model of the filesystem.   *)
(* A path is a sequence of names, a name a sequence of characters, the     *)
(* filesystem a function from the existing paths to "dir" or, for a file,  *)
(* to its content.                                                         *)
(***************************************************************************)
EXTENDS Integers, Sequences, FiniteSets, TLC

VARIABLES
    fs,          \* the filesystem: existing path -> "dir" | file content
    panels,      \* App.left_panel / App.right_panel, keyed by side
    cur_panel,   \* App.cur_panel: "Left" | "Right"
    search_str,  \* App.search_str: sequence of characters
    popup,       \* App.popup: None or Some([title, text])
    pc,          \* where the control flow is: "idle" (waiting for a command),
                 \* "copy", "copied" (inside copy_objects / move_objects),
                 \* "panicked" (the process has aborted)
    op,          \* locals of the running or last copy_objects / move_objects
    stack,       \* call stack of copy_recursively (and of fs::copy of a file)
    fs0,         \* the filesystem as it was when the running copy / move was issued
    nops,        \* number of copy / move / delete commands issued so far
    nchanges     \* number of changes made to the filesystem by other programs

vars == <<fs, panels, cur_panel, search_str, popup, pc, op, stack, fs0, nops, nchanges>>

----------------------------------------------------------------------------
(* Bounds *)

\* Longest path (in components) the filesystem accepts; a longer one is
\* refused the way the OS refuses a path longer than PATH_MAX.
MaxDepth == 3
\* Longest search string typed.
MaxSearch == 1
\* Number of copy / move / delete commands in one run.
MaxOps == 1
\* Number of changes other programs make to the filesystem in one run.
MaxExt == 1
\* Largest stale selection index followed when next() wraps around.
MaxWrap == 2
\* Longest search string typed when the search is checked on its own.
MaxQuery == 2

----------------------------------------------------------------------------
(* Names, paths, the filesystem *)

Chars == {"a", "b"}
CharRank(c) == IF c = "a" THEN 1 ELSE 2

Names == { <<"a">>, <<"b">>, <<"a", "b">> }

\* File contents; Empty is the content of a file of length 0.
Empty == "empty"
Data == {Empty, "x", "y"}
Dir == "dir"

Root == << >>

\* Option<T>
None == << >>
Some(x) == <<x>>

Exists(f, p) == p \in DOMAIN f
IsDir(f, p) == p \in DOMAIN f /\ f[p] = Dir
IsFile(f, p) == p \in DOMAIN f /\ f[p] # Dir

Parent(p) == SubSeq(p, 1, Len(p) - 1)
FileName(p) == p[Len(p)]
Join(p, n) == Append(p, n)

IsPrefix(p, q) == Len(p) <= Len(q) /\ SubSeq(q, 1, Len(p)) = p

\* The names of the immediate children of directory p.
Children(f, p) == { n \in Names : Join(p, n) \in DOMAIN f }

\* f with path p bound to value v (created or overwritten).
Put(f, p, v) == [q \in DOMAIN f \cup {p} |-> IF q = p THEN v ELSE f[q]]

\* f without p and everything below it.
RemoveTree(f, p) == [q \in { r \in DOMAIN f : ~IsPrefix(p, r) } |-> f[q]]

\* The subtree at p as a function from relative paths; empty when p is absent.
SubTree(f, p) ==
    [r \in { SubSeq(q, Len(p) + 1, Len(q)) : q \in { q \in DOMAIN f : IsPrefix(p, q) } }
        |-> f[p \o r]]

----------------------------------------------------------------------------
(* Directory listing: Panel::gen_items *)

\* Ordering of OsStr / PathBuf components: lexicographic on the raw characters.
RECURSIVE NameLess(_, _)
NameLess(x, y) ==
    IF Len(y) = 0 THEN FALSE
    ELSE IF Len(x) = 0 THEN TRUE
    ELSE IF x[1] # y[1] THEN CharRank(x[1]) < CharRank(y[1])
    ELSE NameLess(Tail(x), Tail(y))

\* The comparator without the is_dir tests: plain cmp of the paths.
SortLessByName(f, p, x, y) == NameLess(x, y)

\* The comparator of sort_by: Ordering::Less for (x, y); x and y are names of
\* children of directory p, is_dir is read from the live filesystem.
SortLess(f, p, x, y) ==
    LET xd == IsDir(f, Join(p, x))
        yd == IsDir(f, Join(p, y))
    IN  IF xd /\ yd THEN NameLess(x, y)
        ELSE IF yd THEN FALSE
        ELSE IF xd THEN TRUE
        ELSE NameLess(x, y)

RECURSIVE SortNames(_, _, _)
SortNames(f, p, S) ==
    IF S = {} THEN << >>
    ELSE LET m == CHOOSE x \in S : \A y \in S \ {x} : SortLess(f, p, x, y)
         IN  <<m>> \o SortNames(f, p, S \ {m})

\* The orders in which read_dir may yield the children of directory p: any.
ReadDirOrders(f, p) ==
    { o \in [1..Cardinality(Children(f, p)) -> Children(f, p)] :
          \A i, j \in DOMAIN o : i # j => o[i] # o[j] }

\* One entry put into a sorted vector, behind the entries that are not
\* greater: what the stable slice::sort_by does with it.
RECURSIVE Insert(_, _, _, _)
Insert(f, p, sorted, x) ==
    IF sorted = << >> THEN <<x>>
    ELSE IF SortLess(f, p, x, sorted[1]) THEN <<x>> \o sorted
    ELSE <<sorted[1]>> \o Insert(f, p, Tail(sorted), x)

\* dir_entries.sort_by(...) applied to the entries in the order read.
RECURSIVE sort_by(_, _, _)
sort_by(f, p, dir_entries) ==
    IF dir_entries = << >> THEN << >>
    ELSE Insert(f, p, sort_by(f, p, SubSeq(dir_entries, 1, Len(dir_entries) - 1)),
                dir_entries[Len(dir_entries)])

\* read_dir fails on a path that is not a directory: the listing is empty.
gen_items(f, p) ==
    IF ~IsDir(f, p) THEN << >> ELSE SortNames(f, p, Children(f, p))

----------------------------------------------------------------------------
(* Panel: [path, items, selected, selection_history]                      *)
(* items holds the names; the PathBuf of item i is path/items[i].          *)
(* selected is ListState.selected(): None or Some(i), i counted from 0.    *)

begin(p) ==
    [p EXCEPT !.selected = IF Len(p.items) < 1 THEN None ELSE Some(0)]

end(p) ==
    [p EXCEPT !.selected = IF Len(p.items) < 1 THEN None ELSE Some(Len(p.items) - 1)]

update_items(p, f) == [p EXCEPT !.items = gen_items(f, p.path)]

PanelNew(f, path) ==
    begin([path |-> path, items |-> gen_items(f, path),
           selected |-> None, selection_history |-> << >>])

\* self.items[i] with i out of range panics.
IndexPanics(p) == p.selected # None /\ p.selected[1] >= Len(p.items)

ItemPath(p, i) == Join(p.path, p.items[i + 1])

get_cur_obj(p) ==
    IF p.selected = None THEN None ELSE Some(ItemPath(p, p.selected[1]))

open_dir(p, f) ==
    IF p.selected = None THEN p
    ELSE LET selected_dir == p.selected[1]
         IN  IF IsDir(f, ItemPath(p, selected_dir))
             THEN LET q == update_items(
                              [p EXCEPT !.path = Join(p.path, p.items[selected_dir + 1])], f)
                  IN  begin([q EXCEPT !.selection_history = Append(@, selected_dir)])
             ELSE p

\* leave_dir that resets the selection instead of restoring it.
leave_dir_resets(p, f) ==
    IF Len(p.path) = 0 THEN p
    ELSE LET q == update_items([p EXCEPT !.path = Parent(p.path)], f)
             h == q.selection_history
         IN  begin([q EXCEPT !.selection_history =
                                IF Len(h) > 0 THEN SubSeq(h, 1, Len(h) - 1) ELSE h])

\* leave_dir that reads the last index of the history and leaves it there.
leave_dir_keeps_history(p, f) ==
    IF Len(p.path) = 0 THEN p
    ELSE LET q == update_items([p EXCEPT !.path = Parent(p.path)], f)
             h == q.selection_history
         IN  IF Len(h) > 0
             THEN [q EXCEPT !.selected = Some(h[Len(h)])]
             ELSE begin(q)

leave_dir(p, f) ==
    IF Len(p.path) = 0 THEN p            \* PathBuf::pop() returns false at the root
    ELSE LET q == update_items([p EXCEPT !.path = Parent(p.path)], f)
             h == q.selection_history
         IN  IF Len(h) > 0
             THEN [q EXCEPT !.selected = Some(h[Len(h)]),
                            !.selection_history = SubSeq(h, 1, Len(h) - 1)]
             ELSE begin(q)

\* next() computes items.len() - 1 in usize: with no items it overflows.
NextOverflows(p) == p.selected # None /\ Len(p.items) = 0

panel_next(p) ==
    IF p.selected = None THEN p
    ELSE LET i == p.selected[1]
         IN  IF i >= Len(p.items) - 1 THEN p ELSE [p EXCEPT !.selected = Some(i + 1)]

\* What the wrapped subtraction of a build without overflow checks gives:
\* i >= usize::MAX is false, the selection moves on.
panel_next_wrapped(p) == [p EXCEPT !.selected = Some(p.selected[1] + 1)]

previous(p) ==
    IF p.selected = None THEN p
    ELSE LET i == p.selected[1]
         IN  IF i = 0 THEN p ELSE [p EXCEPT !.selected = Some(i - 1)]

\* str::contains
Contains(name, s) ==
    \E k \in 0..(Len(name) - Len(s)) : SubSeq(name, k + 1, k + Len(s)) = s

\* A scan that starts at the current selection instead of index 0.
jump_from_selection(p, s) ==
    LET from == IF p.selected = None THEN 0 ELSE p.selected[1]
        M == { i \in 1..Len(p.items) : i > from /\ Contains(p.items[i], s) }
    IN  IF M = {} THEN p
        ELSE [p EXCEPT !.selected = Some((CHOOSE i \in M : \A j \in M : i <= j) - 1)]

jump_to_first_matching(p, s) ==
    LET M == { i \in 1..Len(p.items) : Contains(p.items[i], s) }
    IN  IF M = {} THEN p
        ELSE [p EXCEPT !.selected = Some((CHOOSE i \in M : \A j \in M : i <= j) - 1)]

----------------------------------------------------------------------------
(* App *)

Sides == {"Left", "Right"}
OtherSide(s) == IF s = "Left" THEN "Right" ELSE "Left"

get_cur_panel == panels[cur_panel]

\* is_popup that never reports an open popup.
is_popup_never == FALSE

is_popup == popup # None

ErrorPopup(text) == Some([title |-> "Error", text |-> text])

\* The filesystems a run starts from.
InitFS ==
    { [p \in {Root, <<<<"b">>>>, <<<<"b">>, <<"a">>>>, <<<<"a">>>>, <<<<"a", "b">>>>}
          |-> CASE p = <<<<"b">>, <<"a">>>> -> "x"
                [] p = <<<<"a">>>> -> "y"
                [] OTHER -> Dir] }

\* No handler is running: no locals, no snapshot.
\* The home directory, where both panels start.
Home == <<<<"b">>>>

NoOp == [kind |-> "none", src |-> Root, dst |-> Root]
NoFs == << >>

\* App::new: both panels open on the home directory.
Init ==
    /\ fs \in InitFS
    /\ panels = [s \in Sides |-> PanelNew(fs, Home)]
    /\ cur_panel = "Left"
    /\ search_str = << >>
    /\ popup = None
    /\ pc = "idle"
    /\ op = NoOp
    /\ stack = << >>
    /\ fs0 = NoFs
    /\ nops = 0
    /\ nchanges = 0

\* A loop that hands keys to App while a handler is still running.
LoopNeverWaits == pc # "panicked"

\* run_app reads the next key only after the handler of the last one has
\* returned: a handler is called when no other one is running.
LoopIdle == pc = "idle"

\* While a popup is open the loop hands over only the key that dismisses it.
PopupGate == ~is_popup

CanDispatch == LoopIdle /\ PopupGate

OpVars == <<op, stack, fs0, nops>>

Panic ==
    /\ pc' = "panicked"
    /\ UNCHANGED <<fs, panels, cur_panel, search_str, popup, OpVars, nchanges>>

\* get_cur_panel that hands out the left panel whichever side is active.
SetCurPanelLeft(p) == panels' = [panels EXCEPT !["Left"] = p]

SetCurPanel(p) == panels' = [panels EXCEPT ![cur_panel] = p]

\* open_dir that leaves the search string as it is.
AppOpenDirKeepsSearch ==
    /\ CanDispatch
    /\ IF IndexPanics(get_cur_panel)
       THEN Panic
       ELSE /\ SetCurPanel(open_dir(get_cur_panel, fs))
            /\ search_str' = search_str
            /\ UNCHANGED <<fs, cur_panel, popup, pc, OpVars, nchanges>>

AppOpenDir ==
    /\ CanDispatch
    /\ IF IndexPanics(get_cur_panel)
       THEN Panic
       ELSE /\ SetCurPanel(open_dir(get_cur_panel, fs))
            /\ search_str' = << >>
            /\ UNCHANGED <<fs, cur_panel, popup, pc, OpVars, nchanges>>

AppLeaveDir ==
    /\ CanDispatch
    /\ SetCurPanel(leave_dir(get_cur_panel, fs))
    /\ search_str' = << >>
    /\ UNCHANGED <<fs, cur_panel, popup, pc, OpVars, nchanges>>

AppNext ==
    /\ CanDispatch
    /\ IF NextOverflows(get_cur_panel)
       THEN \/ Panic
            \/ /\ get_cur_panel.selected[1] < MaxWrap
               /\ SetCurPanel(panel_next_wrapped(get_cur_panel))
               /\ UNCHANGED <<fs, cur_panel, search_str, popup, pc, OpVars, nchanges>>
       ELSE /\ SetCurPanel(panel_next(get_cur_panel))
            /\ UNCHANGED <<fs, cur_panel, search_str, popup, pc, OpVars, nchanges>>

AppPrevious ==
    /\ CanDispatch
    /\ SetCurPanel(previous(get_cur_panel))
    /\ UNCHANGED <<fs, cur_panel, search_str, popup, pc, OpVars, nchanges>>

AppBegin ==
    /\ CanDispatch
    /\ SetCurPanel(begin(get_cur_panel))
    /\ UNCHANGED <<fs, cur_panel, search_str, popup, pc, OpVars, nchanges>>

AppEnd ==
    /\ CanDispatch
    /\ SetCurPanel(end(get_cur_panel))
    /\ UNCHANGED <<fs, cur_panel, search_str, popup, pc, OpVars, nchanges>>

switch_active_panel ==
    /\ CanDispatch
    /\ cur_panel' = OtherSide(cur_panel)
    /\ search_str' = << >>
    /\ UNCHANGED <<fs, panels, popup, pc, OpVars, nchanges>>

\* App::jump_to_first_matching(ch), for search strings of up to n characters.
JumpUpTo(n) ==
    /\ CanDispatch
    /\ Len(search_str) < n
    /\ \E ch \in Chars :
          /\ search_str' = Append(search_str, ch)
          /\ SetCurPanel(jump_to_first_matching(get_cur_panel, search_str'))
    /\ UNCHANGED <<fs, cur_panel, popup, pc, OpVars, nchanges>>

AppJumpToFirstMatching == JumpUpTo(MaxSearch)

clear_search_str ==
    /\ CanDispatch
    /\ search_str' = << >>
    /\ UNCHANGED <<fs, panels, cur_panel, popup, pc, OpVars, nchanges>>

pop_char_from_search_str ==
    /\ CanDispatch
    /\ search_str' = SubSeq(search_str, 1, Len(search_str) - 1)
    /\ UNCHANGED <<fs, panels, cur_panel, popup, pc, OpVars, nchanges>>

open_help_popup ==
    /\ CanDispatch
    /\ popup' = Some([title |-> "Help", text |-> <<"Help">>])
    /\ UNCHANGED <<fs, panels, cur_panel, search_str, pc, OpVars, nchanges>>

\* close_popup that empties the search string as well.
close_popup_clears ==
    /\ LoopIdle
    /\ is_popup
    /\ popup' = None
    /\ search_str' = << >>
    /\ UNCHANGED <<fs, panels, cur_panel, pc, OpVars, nchanges>>

close_popup ==
    /\ LoopIdle
    /\ is_popup
    /\ popup' = None
    /\ UNCHANGED <<fs, panels, cur_panel, search_str, pc, OpVars, nchanges>>

\* App::refresh: both panels are re-listed; the selections are not touched.
Refreshed(f) == [s \in Sides |-> update_items(panels[s], f)]

AppRefresh ==
    /\ CanDispatch
    /\ panels' = Refreshed(fs)
    /\ UNCHANGED <<fs, cur_panel, search_str, popup, pc, OpVars, nchanges>>

----------------------------------------------------------------------------
(* Filesystem calls of std::fs *)

\* create_dir_all(p) succeeds when p is short enough and no component of it
\* is a file; every missing component is then created.
Prefixes(p) == { SubSeq(p, 1, n) : n \in 0..Len(p) }

CanCreateDirAll(f, p) ==
    /\ Len(p) <= MaxDepth
    /\ \A q \in Prefixes(p) : ~IsFile(f, q)

CreateDirAll(f, p) == [q \in DOMAIN f \cup Prefixes(p) |-> IF q \in DOMAIN f THEN f[q] ELSE Dir]

\* fs::copy(from, to) opens from for reading and to for writing, creating or
\* truncating it, and then copies the bytes.
CanFsCopy(f, from, to) ==
    /\ IsFile(f, from)
    /\ Len(to) <= MaxDepth
    /\ Len(to) > 0
    /\ IsDir(f, Parent(to))
    /\ ~IsDir(f, to)

\* to is truncated when it is opened; when it is the file being read, nothing
\* is left to copy.
FsCopy(f, from, to) == Put(f, to, IF from = to THEN Empty ELSE f[from])

\* The filesystem after an fs::copy that failed: untouched when the failure
\* came before to was opened, to created or truncated when it came after.
FsCopyFailed(f, from, to) ==
    {f} \cup (IF CanFsCopy(f, from, to) THEN {Put(f, to, Empty)} ELSE {})

\* remove_dir_all(p) on a directory, remove_file(p) otherwise.
CanRemove(f, p, as_dir) == IF as_dir THEN IsDir(f, p) /\ p # Root ELSE IsFile(f, p)

\* The filesystem after a removal that failed: untouched, or, for
\* remove_dir_all, with some of the children already removed.
RemoveFailed(f, p, as_dir) ==
    {f} \cup (IF as_dir /\ IsDir(f, p)
              THEN { RemoveTree(f, Join(p, c)) : c \in Children(f, p) }
              ELSE {})

----------------------------------------------------------------------------
(* App::copy and copy_recursively, one filesystem call per step *)

Frame(source, destination, st) ==
    [source |-> source, destination |-> destination, st |-> st, entries |-> {}]

Top == stack[Len(stack)]
Pop == SubSeq(stack, 1, Len(stack) - 1)
SetTop(fr) == [stack EXCEPT ![Len(stack)] = fr]

CopyText == <<"Failed to copy", op.src, op.dst>>

\* An error of the copy phase comes back through every `?` to copy_objects
\* or move_objects, which opens the popup and returns.
\* The error of the copy phase dropped: the caller goes on as after Ok.
CopyErrorIgnored(f) ==
    /\ fs' = f
    /\ stack' = << >>
    /\ pc' = "copied"
    /\ UNCHANGED <<panels, cur_panel, search_str, popup, op, fs0, nops, nchanges>>

\* The error of the copy phase swallowed: the handler returns without a popup.
CopyFailsSilently(f) ==
    /\ fs' = f
    /\ stack' = << >>
    /\ op' = NoOp
    /\ fs0' = NoFs
    /\ pc' = "idle"
    /\ UNCHANGED <<panels, cur_panel, search_str, popup, nops, nchanges>>

\* The error of the copy phase unwrapped instead of handled: the program stops.
CopyFailsPanics(f) ==
    /\ fs' = f
    /\ pc' = "panicked"
    /\ UNCHANGED <<panels, cur_panel, search_str, popup, op, stack, fs0, nops, nchanges>>

\* The `return` after the popup of a failed copy left out: the popup is open
\* and the caller goes on as after Ok.
CopyFailsGoesOn(f) ==
    /\ fs' = f
    /\ stack' = << >>
    /\ popup' = ErrorPopup(CopyText)
    /\ pc' = "copied"
    /\ UNCHANGED <<panels, cur_panel, search_str, op, fs0, nops, nchanges>>

CopyFails(f) ==
    /\ fs' = f
    /\ stack' = << >>
    /\ op' = NoOp
    /\ fs0' = NoFs
    /\ popup' = ErrorPopup(CopyText)
    /\ pc' = "idle"
    /\ UNCHANGED <<panels, cur_panel, search_str, nops, nchanges>>

\* A frame that starts its loop over instead of returning.
ReturnsNever(f) ==
    /\ fs' = f
    /\ stack' = SetTop([Top EXCEPT !.st = IF Top.st = "file" THEN "file" ELSE "read"])
    /\ UNCHANGED <<panels, cur_panel, search_str, popup, pc, op, fs0, nops, nchanges>>

\* The frame on top returns Ok: back in the caller's loop, or in App::copy.
Returns(f) ==
    /\ fs' = f
    /\ stack' = Pop
    /\ pc' = IF Len(stack) = 1 THEN "copied" ELSE "copy"
    /\ UNCHANGED <<panels, cur_panel, search_str, popup, op, fs0, nops, nchanges>>

\* The destination taken from the active panel instead of the other one.
DestPathActive(src_path) == Join(get_cur_panel.path, FileName(src_path))

\* The destination of copy(): the other panel's directory joined with the
\* file name of the source.
DestPath(src_path) == Join(panels[OtherSide(cur_panel)].path, FileName(src_path))

\* copy_objects / move_objects up to the first filesystem call of copy():
\* the source is the selection of the active panel.
Submit(kind) ==
    /\ CanDispatch
    /\ nops < MaxOps
    /\ IF IndexPanics(get_cur_panel) \/ get_cur_obj(get_cur_panel) = None
       THEN Panic      \* items[i] out of range; file_name().unwrap() of an empty path
       ELSE LET src_path == get_cur_obj(get_cur_panel)[1]
                dest_path == DestPath(src_path)
            IN  /\ op' = [kind |-> kind, src |-> src_path, dst |-> dest_path,
                          status |-> "Running"]
                /\ stack' = << Frame(src_path, dest_path,
                                     IF IsDir(fs, src_path) THEN "create" ELSE "file") >>
                /\ fs0' = fs
                /\ nops' = nops + 1
                /\ pc' = "copy"
                /\ UNCHANGED <<fs, panels, cur_panel, search_str, popup, nchanges>>

copy_objects == Submit("copy")

move_objects == Submit("move")

\* fs::copy(&src_path, &dest_path) of App::copy
CopyFile ==
    /\ pc = "copy"
    /\ Top.st = "file"
    /\ \/ /\ CanFsCopy(fs, Top.source, Top.destination)
          /\ Returns(FsCopy(fs, Top.source, Top.destination))
       \/ \E f \in FsCopyFailed(fs, Top.source, Top.destination) : CopyFails(f)

\* fs::create_dir_all(&destination)?
CreateDestination ==
    /\ pc = "copy"
    /\ Top.st = "create"
    /\ \/ /\ CanCreateDirAll(fs, Top.destination)
          /\ fs' = CreateDirAll(fs, Top.destination)
          /\ stack' = SetTop([Top EXCEPT !.st = "read"])
          /\ UNCHANGED <<panels, cur_panel, search_str, popup, pc, op, fs0, nops, nchanges>>
       \/ CopyFails(fs)

\* fs::read_dir(source)?
ReadSource ==
    /\ pc = "copy"
    /\ Top.st = "read"
    /\ \/ /\ IsDir(fs, Top.source)
          /\ stack' = SetTop([Top EXCEPT !.st = "iter", !.entries = Children(fs, Top.source)])
          /\ UNCHANGED <<fs, panels, cur_panel, search_str, popup, pc, op, fs0, nops, nchanges>>
       \/ CopyFails(fs)

\* One turn of the loop over the entries, in the order read_dir yields them.
CopyEntry ==
    /\ pc = "copy"
    /\ Top.st = "iter"
    /\ \E e \in Top.entries :
          LET from == Join(Top.source, e)
              to == Join(Top.destination, e)
              rest == [Top EXCEPT !.entries = @ \ {e}]
          IN  \/ /\ IsDir(fs, from)          \* copy_recursively(entry.path(), ...)
                 /\ stack' = Append(SetTop(rest), Frame(from, to, "create"))
                 /\ UNCHANGED <<fs, panels, cur_panel, search_str, popup, pc, op, fs0,
                                nops, nchanges>>
              \/ /\ CanFsCopy(fs, from, to)  \* fs::copy(entry.path(), ...)
                 /\ fs' = FsCopy(fs, from, to)
                 /\ stack' = SetTop(rest)
                 /\ UNCHANGED <<panels, cur_panel, search_str, popup, pc, op, fs0, nops,
                                nchanges>>
              \/ /\ ~IsDir(fs, from)
                 /\ \E f \in FsCopyFailed(fs, from, to) : CopyFails(f)
              \/ /\ IsDir(fs, from)          \* entry? or file_type()? fails
                 /\ CopyFails(fs)

\* The loop is over: Ok(())
CopyReturn ==
    /\ pc = "copy"
    /\ Top.st = "iter"
    /\ Top.entries = {}
    /\ Returns(fs)

\* copy_objects after Ok: refresh
CopyDone ==
    /\ pc = "copied"
    /\ op.kind = "copy"
    /\ panels' = Refreshed(fs)
    /\ op' = NoOp
    /\ fs0' = NoFs
    /\ pc' = "idle"
    /\ UNCHANGED <<fs, cur_panel, search_str, popup, stack, nops, nchanges>>

\* move_objects after Ok: the source is removed, then refresh
MoveDelete ==
    /\ pc = "copied"
    /\ op.kind = "move"
    /\ LET src_path == get_cur_obj(get_cur_panel)[1]
           as_dir == IsDir(fs, src_path)
       IN  \/ /\ CanRemove(fs, src_path, as_dir)
              /\ fs' = RemoveTree(fs, src_path)
              /\ panels' = Refreshed(fs')
              /\ UNCHANGED popup
           \/ /\ fs' \in RemoveFailed(fs, src_path, as_dir)
              /\ popup' = ErrorPopup(<<"Failed to delete", src_path, src_path>>)
              /\ UNCHANGED panels
    /\ op' = NoOp
    /\ fs0' = NoFs
    /\ pc' = "idle"
    /\ UNCHANGED <<cur_panel, search_str, stack, nops, nchanges>>

\* delete_objects without the update_items at its end.
delete_objects_no_relist ==
    /\ CanDispatch
    /\ nops < MaxOps
    /\ IF IndexPanics(get_cur_panel)
       THEN Panic
       ELSE /\ nops' = nops + 1
            /\ IF get_cur_obj(get_cur_panel) = None
               THEN /\ popup' = ErrorPopup(<<"Failed to remove", Root, Root>>)
                    /\ UNCHANGED <<fs, panels>>
               ELSE LET cur_obj == get_cur_obj(get_cur_panel)[1]
                        as_dir == IsDir(fs, cur_obj)
                    IN  \/ /\ CanRemove(fs, cur_obj, as_dir)
                           /\ fs' = RemoveTree(fs, cur_obj)
                           /\ UNCHANGED <<popup, panels>>
                        \/ /\ fs' \in RemoveFailed(fs, cur_obj, as_dir)
                           /\ popup' = ErrorPopup(<<"Failed to remove", cur_obj, cur_obj>>)
                           /\ UNCHANGED panels
            /\ UNCHANGED <<cur_panel, search_str, pc, op, stack, fs0, nchanges>>

delete_objects ==
    /\ CanDispatch
    /\ nops < MaxOps
    /\ IF IndexPanics(get_cur_panel)
       THEN Panic
       ELSE /\ nops' = nops + 1
            /\ IF get_cur_obj(get_cur_panel) = None
               THEN \* remove_file of the empty path fails
                    /\ popup' = ErrorPopup(<<"Failed to remove", Root, Root>>)
                    /\ UNCHANGED <<fs, panels>>
               ELSE LET cur_obj == get_cur_obj(get_cur_panel)[1]
                        as_dir == IsDir(fs, cur_obj)
                    IN  \/ /\ CanRemove(fs, cur_obj, as_dir)
                           /\ fs' = RemoveTree(fs, cur_obj)
                           /\ SetCurPanel(update_items(get_cur_panel, fs'))
                           /\ UNCHANGED popup
                        \/ /\ fs' \in RemoveFailed(fs, cur_obj, as_dir)
                           /\ popup' = ErrorPopup(<<"Failed to remove", cur_obj, cur_obj>>)
                           /\ UNCHANGED panels
            /\ UNCHANGED <<cur_panel, search_str, pc, op, stack, fs0, nchanges>>

----------------------------------------------------------------------------
(* Other programs change the filesystem between two commands. *)

ExternalRemove ==
    /\ pc = "idle"
    /\ nchanges < MaxExt
    /\ \E p \in DOMAIN fs \ {Root} : fs' = RemoveTree(fs, p)
    /\ nchanges' = nchanges + 1
    /\ UNCHANGED <<panels, cur_panel, search_str, popup, pc, OpVars>>

ExternalCreate ==
    /\ pc = "idle"
    /\ nchanges < MaxExt
    /\ \E d \in DOMAIN fs, n \in Names, v \in {Dir, "x"} :
          /\ IsDir(fs, d)
          /\ Len(d) < MaxDepth
          /\ Join(d, n) \notin DOMAIN fs
          /\ fs' = Put(fs, Join(d, n), v)
    /\ nchanges' = nchanges + 1
    /\ UNCHANGED <<panels, cur_panel, search_str, popup, pc, OpVars>>

----------------------------------------------------------------------------

\* The dismiss command: close the popup if one is open, else clear the search.
Dismiss == close_popup \/ clear_search_str

Command ==
    \/ AppOpenDir
    \/ AppLeaveDir
    \/ AppNext
    \/ AppPrevious
    \/ AppBegin
    \/ AppEnd
    \/ switch_active_panel
    \/ AppJumpToFirstMatching
    \/ clear_search_str
    \/ pop_char_from_search_str
    \/ open_help_popup
    \/ close_popup
    \/ AppRefresh
    \/ copy_objects
    \/ move_objects
    \/ delete_objects

OperationStep ==
    \/ CopyFile
    \/ CreateDestination
    \/ ReadSource
    \/ CopyEntry
    \/ CopyReturn
    \/ CopyDone
    \/ MoveDelete

Next ==
    \/ Command
    \/ OperationStep
    \/ ExternalRemove
    \/ ExternalCreate

Spec == Init /\ [][Next]_vars

\* The handler of a copy or move command is running.
Running == pc \in {"copy", "copied"}

\* The handlers run on the loop's own thread: once called, a handler keeps
\* taking steps until it returns.
FairSpec == Spec /\ WF_vars(OperationStep)

----------------------------------------------------------------------------
(* The search and the navigation on their own: panels on a directory of   *)
(* any content, with any selection; search strings typed, shortened and   *)
(* cleared between the navigation commands.                               *)

\* The directories a panel may list: each name absent, a file or a directory.
SearchFS ==
    { [p \in {Root} \cup { <<n>> : n \in DOMAIN kinds } |->
          IF p = Root THEN Dir ELSE kinds[p[1]]] :
      kinds \in UNION { [S -> {Dir, "x"}] : S \in SUBSET Names } }

SearchInit ==
    /\ fs \in SearchFS
    /\ \E sel \in {None} \cup { Some(i) : i \in 0..2 } :
          panels = [s \in Sides |-> [PanelNew(fs, Root) EXCEPT !.selected = sel]]
    /\ cur_panel = "Left"
    /\ search_str = << >>
    /\ popup = None
    /\ pc = "idle"
    /\ op = NoOp
    /\ stack = << >>
    /\ fs0 = NoFs
    /\ nops = 0
    /\ nchanges = 0

SearchNext ==
    \/ JumpUpTo(MaxQuery)
    \/ pop_char_from_search_str
    \/ clear_search_str
    \/ AppOpenDir
    \/ AppLeaveDir
    \/ AppNext
    \/ AppPrevious
    \/ AppBegin
    \/ AppEnd
    \/ switch_active_panel

SearchSpec == SearchInit /\ [][SearchNext]_vars

----------------------------------------------------------------------------
(* Properties *)

Last(h) == h[Len(h)]
Front(h) == SubSeq(h, 1, Len(h) - 1)

\* C1: in every reachable state, for both panels, selected is None exactly
\* when the listing is empty, and otherwise 0 <= selected < len(items).
C1_SelectionValid ==
    \A s \in Sides :
        LET p == panels[s]
        IN  /\ (p.selected = None) <=> (Len(p.items) = 0)
            /\ p.selected # None => (0 <= p.selected[1] /\ p.selected[1] < Len(p.items))

\* C2: descend pushes exactly the selected index and adds the selected
\* name to the directory; every step that keeps the panel in its directory
\* keeps the history; ascend returns to the parent, selects the index on top
\* of the history and pops it. Hence a descend followed by moves and searches
\* inside the subdirectory and by an ascend gives back the directory, the
\* selected index and the history the panel had before the descend.
C2_DescendAscendRestores ==
    [][\A s \in Sides :
          LET p == panels[s]
              q == panels'[s]
          IN  /\ Len(q.path) = Len(p.path) + 1 =>
                    /\ p.selected # None
                    /\ q.path = Join(p.path, p.items[p.selected[1] + 1])
                    /\ q.selection_history = Append(p.selection_history, p.selected[1])
              /\ q.path = p.path => q.selection_history = p.selection_history
              /\ (Len(q.path) = Len(p.path) - 1 /\ Len(p.selection_history) > 0) =>
                    /\ q.path = Parent(p.path)
                    /\ q.selected = Some(Last(p.selection_history))
                    /\ q.selection_history = Front(p.selection_history)
              /\ Len(q.path) \in {Len(p.path) - 1, Len(p.path), Len(p.path) + 1}
      ]_vars

\* A panel that descended from an entry other than the first one and now sits
\* in the subdirectory with an entry selected. (The state after the ascend is
\* the state before the descend, so no state shows the whole round trip.)
C2_Witness ==
    \E s \in Sides :
        /\ Len(panels[s].selection_history) > 0
        /\ Last(panels[s].selection_history) > 0
        /\ panels[s].selected # None
        /\ pc = "idle"

\* The paths of the source as they were when the command was issued, and
\* where the copy puts each of them.
SrcPaths == { p \in DOMAIN fs0 : IsPrefix(op.src, p) }
DstOf(p) == op.dst \o SubSeq(p, Len(op.src) + 1, Len(p))

\* Every path of the source has its counterpart, of the same kind, under the
\* destination.
CopyComplete(f) ==
    \A p \in SrcPaths :
        /\ DstOf(p) \in DOMAIN f
        /\ (f[DstOf(p)] = Dir) <=> (fs0[p] = Dir)

\* C3: within a move, a path is removed only in the delete phase, which
\* starts only when the copy phase has returned Ok with the whole source
\* copied; when the copy phase fails, every path of the source still exists
\* and what was written to the destination so far stays (no path that
\* existed at the failure is removed), and the error popup is open.
C3_MoveDeletesOnlyAfterCopy ==
    [][(op.kind = "move" /\ Running) =>
          /\ (\E p \in DOMAIN fs : p \notin DOMAIN fs') =>
                (pc = "copied" /\ stack = << >> /\ CopyComplete(fs))
          /\ (pc = "copy" /\ pc' = "idle") =>
                /\ SrcPaths \subseteq DOMAIN fs'
                /\ DOMAIN fs \subseteq DOMAIN fs'
                /\ is_popup'
      ]_vars

\* A move whose copy phase has written a part of the destination and not all
\* of it; the filesystem call it is about to make may fail.
C3_Witness ==
    /\ op.kind = "move"
    /\ pc = "copy"
    /\ DOMAIN fs # DOMAIN fs0
    /\ ~CopyComplete(fs)

\* C4: when a move ends without an error, the source path does not exist any
\* more and the destination holds everything the source held when the move
\* was issued, with the same contents.
C4_MoveRemovesSourceKeepsCopy ==
    [][(op.kind = "move" /\ pc = "copied" /\ pc' = "idle" /\ ~is_popup') =>
          /\ ~Exists(fs', op.src)
          /\ \A p \in SrcPaths : /\ Exists(fs', DstOf(p))
                                 /\ fs'[DstOf(p)] = fs0[p]
      ]_vars

\* C5: when the copy of a directory ends without an error, every
\* subdirectory and every file the source had when the copy was issued is at
\* the same relative place under the destination, each file with the content
\* it had in the source. (The claim says more, that the destination holds
\* nothing else; this part of it is enough to show where the code departs.)
C5_CopyReproducesTree ==
    [][(op.kind = "copy" /\ pc = "copied" /\ pc' = "idle" /\ IsDir(fs0, op.src)) =>
          \A r \in DOMAIN SubTree(fs0, op.src) :
              /\ r \in DOMAIN SubTree(fs', op.dst)
              /\ SubTree(fs', op.dst)[r] = SubTree(fs0, op.src)[r]
      ]_vars

\* C6: no step of a copy, whether it ends well or fails, changes the source:
\* the tree at the source path stays what it was when the copy was issued.
C6_CopyLeavesSource ==
    [][(op.kind = "copy" /\ Running) =>
          SubTree(fs', op.src) = SubTree(fs0, op.src)
      ]_vars

\* C7: while a copy or move runs, its source is the selected entry of the
\* active panel and its destination is the other panel's directory joined
\* with the file name of the source; the copy phase removes nothing, and
\* every path it creates or changes is the destination, lies below it, or is
\* a missing ancestor directory of it (made by create_dir_all).
C7_DestinationIsOtherPanelPlusName ==
    [][Running =>
          /\ get_cur_obj(get_cur_panel) = Some(op.src)
          /\ op.dst = Join(panels[OtherSide(cur_panel)].path, FileName(op.src))
          /\ pc = "copy" =>
                /\ DOMAIN fs \subseteq DOMAIN fs'
                /\ \A p \in DOMAIN fs' :
                      (p \notin DOMAIN fs \/ fs[p] # fs'[p]) =>
                         \/ IsPrefix(op.dst, p)
                         \/ IsPrefix(p, op.dst) /\ p \notin DOMAIN fs /\ fs'[p] = Dir
      ]_vars

\* A copy or move between two different directories that has created its
\* destination.
C7_Witness ==
    /\ pc = "copy"
    /\ panels["Left"].path # panels["Right"].path
    /\ Exists(fs, op.dst)
    /\ ~Exists(fs0, op.dst)

IsOperationError(pp) ==
    pp # None /\ pp[1].title = "Error" /\ pp[1].text[1] \in {"Failed to copy", "Failed to delete"}

\* A step reports the outcome of an operation: it opens the operation's
\* error popup, or it is the refresh that ends a successful operation.
Reports ==
    \/ popup' # popup /\ IsOperationError(popup')
    \/ Running /\ pc' = "idle" /\ ~is_popup'

C10_OperationEnds == Running ~> (pc = "idle")

\* A copy or move of a directory into a directory inside itself.
C10_Witness ==
    /\ pc = "copy"
    /\ IsPrefix(op.src, op.dst)
    /\ op.src # op.dst
    /\ Len(stack) > 1

----------------------------------------------------------------------------

\* The popup a failed filesystem call of an operation opens: titled Error,
\* with a text that is not empty.
IsFailurePopup(pp) ==
    /\ pp # None
    /\ pp[1].title = "Error"
    /\ Len(pp[1].text) > 0
    /\ pp[1].text[1] \in {"Failed to copy", "Failed to delete", "Failed to remove"}

\* The step is a delete command that came back to the loop.
DeleteStep == pc = "idle" /\ pc' = "idle" /\ nops' = nops + 1

\* The selected object was there and the step removed it.
Removed(target) == target # None /\ Exists(fs, target[1]) /\ ~Exists(fs', target[1])

C13_BothPanelsRelisted ==
    [][(Running /\ pc' = "idle") =>
          \A s \in Sides : panels'[s].items = gen_items(fs', panels'[s].path)]_vars

C16_NoSelectionNoOp ==
    [][(/\ get_cur_panel.selected = None
        /\ Len(get_cur_panel.items) = 0
        /\ \/ AppOpenDir \/ AppNext \/ AppPrevious
           \/ copy_objects \/ move_objects \/ delete_objects)
       => /\ pc' = "idle"
          /\ fs' = fs
          /\ popup' = popup
          /\ panels' = panels]_vars

\* x comes before y in the lexicographic order of the raw characters.
LexLess(x, y) ==
    \E k \in 0..Len(x) :
        /\ k <= Len(y)
        /\ SubSeq(x, 1, k) = SubSeq(y, 1, k)
        /\ \/ k = Len(x) /\ k < Len(y)
           \/ k < Len(x) /\ k < Len(y) /\ CharRank(x[k + 1]) < CharRank(y[k + 1])

\* Listing l of directory d has the directories first and each kind in
\* lexicographic order of the names.
DirsFirstThenLex(f, d, l) ==
    \A i, j \in 1..Len(l) :
        i < j =>
            LET id == IsDir(f, Join(d, l[i]))
                jd == IsDir(f, Join(d, l[j]))
            IN  /\ jd => id
                /\ (id = jd) => LexLess(l[i], l[j])

\* C17: in every reachable state, the listing of the directory of either
\* panel has all directories before all files and each kind in
\* lexicographic order of the raw names, and holds every child once,
\* whatever the order in which read_dir yields the entries: listing the
\* unchanged directory again gives the same sequence.
C17_ListingSortedAndStable ==
    \A d \in { panels[s].path : s \in Sides } :
        IsDir(fs, d) =>
            LET l == gen_items(fs, d)
            IN  /\ DirsFirstThenLex(fs, d, l)
                /\ { l[i] : i \in 1..Len(l) } = Children(fs, d)
                /\ Len(l) = Cardinality(Children(fs, d))
                /\ \A o \in ReadDirOrders(fs, d) : sort_by(fs, d, o) = l

\* A panel lists a directory that holds a file whose name sorts before the
\* name of one of its directories.
C17_Witness ==
    \E s \in Sides :
        LET p == panels[s]
        IN  /\ Len(p.items) = 3
            /\ p.items = gen_items(fs, p.path)
            /\ \E x, y \in Children(fs, p.path) :
                  /\ IsFile(fs, Join(p.path, x))
                  /\ IsDir(fs, Join(p.path, y))
                  /\ LexLess(x, y)
            /\ nchanges > 0

\* s occurs in name as a run of consecutive characters.
HasSubstring(name, s) ==
    \E a \in 0..Len(name) :
        /\ a + Len(s) <= Len(name)
        /\ \A k \in 1..Len(s) : name[a + k] = s[k]

\* C18: a search character typed makes the search string one longer and
\* sets the selection of the active panel to the smallest index, counted
\* from 0 and whatever the selection was, whose name contains the search
\* string (case-sensitive); with no such entry the selection stays. The
\* items, path and selection history of the panel and the whole other panel
\* are left as they are.
C18_JumpsToFirstMatch ==
    [][Len(search_str') = Len(search_str) + 1 =>
          LET p == panels[cur_panel]
              q == panels'[cur_panel]
              M == { i \in 0..(Len(p.items) - 1) : HasSubstring(p.items[i + 1], search_str') }
          IN  /\ q.items = p.items
              /\ q.path = p.path
              /\ q.selection_history = p.selection_history
              /\ panels'[OtherSide(cur_panel)] = panels[OtherSide(cur_panel)]
              /\ cur_panel' = cur_panel
              /\ IF M = {}
                 THEN q.selected = p.selected
                 ELSE /\ q.selected # None
                      /\ q.selected[1] \in M
                      /\ \A i \in M : q.selected[1] <= i
      ]_vars

\* A search string of two characters has selected the second of three
\* entries: the first one does not contain it.
C18_Witness ==
    /\ Len(search_str) = 2
    /\ Len(get_cur_panel.items) = 3
    /\ get_cur_panel.selected = Some(1)
    /\ HasSubstring(get_cur_panel.items[2], search_str)
    /\ ~HasSubstring(get_cur_panel.items[1], search_str)

\* C19: in every reachable state, move_next makes the selection of the
\* active panel one larger when it is below the last index and move_previous
\* makes it one smaller when it is above 0; at the last index, respectively
\* at index 0, the command changes nothing: the selection never wraps and
\* never leaves the listing.
C19_NextPreviousClamp ==
    [][LET p == panels[cur_panel]
           q == panels'[cur_panel]
       IN  /\ AppNext =>
                 IF p.selected # None /\ p.selected[1] < Len(p.items) - 1
                 THEN q = [p EXCEPT !.selected = Some(p.selected[1] + 1)]
                 ELSE q = p
           /\ AppPrevious =>
                 IF p.selected # None /\ p.selected[1] > 0
                 THEN q = [p EXCEPT !.selected = Some(p.selected[1] - 1)]
                 ELSE q = p
      ]_vars

\* C20: refresh re-lists the directory of each panel and leaves its path and
\* selection history as they are; a selection that is still below the new
\* length is kept, one that is not becomes the new last index, and the
\* selection is None when the new listing is empty.
C20_RefreshClampsSelection ==
    [][AppRefresh =>
          \A s \in Sides :
              LET p == panels[s]
                  q == panels'[s]
                  n == Len(q.items)
              IN  /\ q.items = gen_items(fs, p.path)
                  /\ q.path = p.path
                  /\ q.selection_history = p.selection_history
                  /\ n = 0 => q.selected = None
                  /\ (n > 0 /\ p.selected # None) =>
                        q.selected = Some(IF p.selected[1] < n THEN p.selected[1] ELSE n - 1)
      ]_vars

\* The entry the selection of panel p points at is a directory.
SelectedIsDir(p) ==
    /\ p.selected # None
    /\ p.selected[1] < Len(p.items)
    /\ IsDir(fs, Join(p.path, p.items[p.selected[1] + 1]))

\* What descend makes of panel p, whose selected entry is a directory.
Descended(p) ==
    LET dir == Join(p.path, p.items[p.selected[1] + 1])
        l == gen_items(fs, dir)
    IN  [path |-> dir,
         items |-> l,
         selected |-> IF Len(l) = 0 THEN None ELSE Some(0),
         selection_history |-> Append(p.selection_history, p.selected[1])]

\* C21: descend returns having changed nothing when the active panel has no
\* selection or its selected entry is not a directory; when it is one,
\* descend pushes the selected index onto the selection history, makes the
\* subdirectory the path, replaces the items by its listing and selects
\* index 0, or nothing when the listing is empty.
C21_DescendEffect ==
    [][AppOpenDir =>
          /\ pc' = "idle"
          /\ panels'[cur_panel] = IF SelectedIsDir(panels[cur_panel])
                                  THEN Descended(panels[cur_panel])
                                  ELSE panels[cur_panel]
      ]_vars

\* What ascend makes of panel p, whose path has a parent.
Ascended(p) ==
    LET l == gen_items(fs, Parent(p.path))
        h == p.selection_history
    IN  [path |-> Parent(p.path),
         items |-> l,
         selected |-> IF Len(h) > 0 THEN Some(Last(h))
                      ELSE IF Len(l) = 0 THEN None ELSE Some(0),
         selection_history |-> IF Len(h) > 0 THEN Front(h) ELSE << >>]

\* C22: ascend leaves every field of the active panel as it is when its
\* path has no parent; otherwise the path becomes the parent, the items its
\* listing, and the selection the index popped from the selection history,
\* which gets one shorter, or, with an empty history, index 0 (None when
\* the listing is empty) while the history stays empty.
C22_AscendEffect ==
    [][(pc = "idle" /\ UNCHANGED <<fs, cur_panel, popup>> /\ AppLeaveDir) =>
          /\ pc' = "idle"
          /\ panels'[cur_panel] = IF Len(panels[cur_panel].path) = 0
                                  THEN panels[cur_panel]
                                  ELSE Ascended(panels[cur_panel])
      ]_vars

\* The active panel is inside a directory it has descended into from an
\* index other than 0, and no popup is in the way of ascend.
C22_Witness ==
    /\ pc = "idle"
    /\ popup = None
    /\ Len(get_cur_panel.path) > 1
    /\ Len(get_cur_panel.selection_history) > 0
    /\ Last(get_cur_panel.selection_history) > 0
    /\ Len(gen_items(fs, Parent(get_cur_panel.path))) > 1

\* The selection after a scan of the items of p from index 0 for the first
\* name that contains s: that index, or the selection as it was.
ScanFromTop(p, s) ==
    LET M == { i \in 0..(Len(p.items) - 1) : HasSubstring(p.items[i + 1], s) }
    IN  IF M = {} THEN p.selected
        ELSE Some(CHOOSE i \in M : \A j \in M : i <= j)

\* C23: a search character typed appends that one character to the search
\* string of App and then selects, in the active panel, the first entry from
\* index 0 that contains the whole string typed so far; navigate-into,
\* navigate-out and switch-panel, when they return, leave the search string
\* empty, also when the descend or ascend changed nothing in the panel;
\* move_next, move_previous, move_to_start and move_to_end leave it as it is.
C23_SearchBuffer ==
    [][/\ Len(search_str') > Len(search_str) =>
             /\ \E c \in Chars : search_str' = Append(search_str, c)
             /\ panels'[cur_panel].selected = ScanFromTop(panels[cur_panel], search_str')
       /\ (pc' = "idle" /\ (AppOpenDir \/ AppLeaveDir \/ switch_active_panel)) =>
             search_str' = << >>
       /\ (AppNext \/ AppPrevious \/ AppBegin \/ AppEnd) => search_str' = search_str
      ]_vars

\* Two characters are typed in while the selected entry of the active panel
\* is a file and its path is the root: descend and ascend would change
\* nothing in the panel.
C23_Witness ==
    /\ Len(search_str) = 2
    /\ pc = "idle"
    /\ popup = None
    /\ Len(get_cur_panel.path) = 0
    /\ get_cur_panel.selected # None
    /\ get_cur_panel.selected[1] < Len(get_cur_panel.items)
    /\ ~SelectedIsDir(get_cur_panel)

\* The step has removed target and all below it, and nothing else, and has
\* re-listed the active panel: target is gone from the filesystem and from
\* the items of the active panel.
DeletedAndRelisted(target) ==
    /\ fs' = RemoveTree(fs, target[1])
    /\ popup' = popup
    /\ panels'[cur_panel] = update_items(panels[cur_panel], fs')
    /\ panels'[OtherSide(cur_panel)] = panels[OtherSide(cur_panel)]
    /\ \A i \in 1..Len(panels'[cur_panel].items) :
          Join(panels'[cur_panel].path, panels'[cur_panel].items[i]) # target[1]

\* C24 as stated: a delete that succeeds removes the selected path,
\* recursively, and re-lists the active panel; a delete whose removal fails
\* opens the error popup and leaves the filesystem and both panels as they
\* were.
C24_FailedDeleteChangesNothing ==
    [][DeleteStep =>
          LET target == get_cur_obj(get_cur_panel)
          IN  IF Removed(target)
              THEN DeletedAndRelisted(target)
              ELSE /\ IsFailurePopup(popup')
                   /\ panels' = panels
                   /\ fs' = fs
      ]_vars

\* C24, amended: a delete whose removal fails opens the error popup and
\* leaves both panels as they were; of the filesystem it leaves the selected
\* path itself in place and everything outside it untouched, while entries
\* below a selected directory may already be gone. A delete that succeeds
\* is as stated.
C24_FailedDeleteKeepsPanels ==
    [][DeleteStep =>
          LET target == get_cur_obj(get_cur_panel)
          IN  IF Removed(target)
              THEN DeletedAndRelisted(target)
              ELSE /\ IsFailurePopup(popup')
                   /\ panels' = panels
                   /\ DOMAIN fs' \subseteq DOMAIN fs
                   /\ \A p \in DOMAIN fs' : fs'[p] = fs[p]
                   /\ \A p \in DOMAIN fs \ DOMAIN fs' :
                         /\ target # None
                         /\ IsDir(fs, target[1])
                         /\ IsPrefix(target[1], p)
                         /\ p # target[1]
      ]_vars

\* The delete of a directory has failed after a part of it was removed.
C24_Witness ==
    /\ popup # None
    /\ popup[1].text[1] = "Failed to remove"
    /\ IsDir(fs, popup[1].text[2])
    /\ nchanges = 0
    /\ fs \notin InitFS

\* C25: descend, ascend, move_next, move_previous, move_to_start,
\* move_to_end and a search character leave the path, items, selection and
\* selection history of the inactive panel, and the active side, as they
\* are; switch-panel makes the other side the active one and leaves every
\* field of both panels as it is.
C25_OnlyActivePanelTouched ==
    [][(pc = "idle" /\ UNCHANGED <<fs, popup, nops, nchanges>>) =>
          /\ (\/ AppOpenDir \/ AppLeaveDir
              \/ AppNext \/ AppPrevious \/ AppBegin \/ AppEnd
              \/ AppJumpToFirstMatching) =>
                 /\ panels'[OtherSide(cur_panel)] = panels[OtherSide(cur_panel)]
                 /\ cur_panel' = cur_panel
          /\ switch_active_panel =>
                 /\ cur_panel' = OtherSide(cur_panel)
                 /\ panels' = panels
      ]_vars

\* The right panel is the active one and has descended, with a search
\* string typed, while the left panel is somewhere else.
C25_Witness ==
    /\ cur_panel = "Right"
    /\ panels["Left"].path # panels["Right"].path
    /\ Len(panels["Right"].selection_history) > 0
    /\ Len(search_str) > 0
    /\ pc = "idle"

====
